---- MODULE Spec2Model ----
(***************************************************************************)
(* Model of the agent loop of game/core: the ActionRegistry                *)
(* (game/core/actions.py) and the Agent (game/core/agent.py) with its      *)
(* bounded action history, prompt construction, next-action resolution     *)
(* and run loop.  Environment, LLM provider and action handlers are        *)
(* collaborators: each of their calls resolves nondeterministically.       *)
(***************************************************************************)
EXTENDS Integers, Sequences, FiniteSets, TLC

(***************************************************************************)
(* Bounds of the model.                                                    *)
(***************************************************************************)
MaxHist == 2      \* max_history is drawn from 1..MaxHist
MaxSteps == 3     \* max_steps of run_loop is drawn from 1..MaxSteps
MaxLog == 3       \* successful executions per behaviour
MaxRegs == 2
MaxInFlight == 2
MaxTime == 4       \* seconds on the clock of the Twitter environment
MaxDuration == 2   \* largest cache_duration, in seconds
MaxElapsed == 1    \* seconds a fetch may take      \* register_action calls per behaviour

(***************************************************************************)
(* Python values.  A decoded JSON string is Str(s), a decoded JSON list    *)
(* is List; a dict is a function from its keys to such values.             *)
(***************************************************************************)
Str(s) == [k |-> "str", v |-> s]
List == [k |-> "list", v |-> "[]"]
EmptyDict == << >>

Hashable(x) == x.k = "str"

\* dict with key -> value set (insert or overwrite), as d[key] = value
DictSet(d, key, value) ==
    [x \in (DOMAIN d) \cup {key} |-> IF x = key THEN value ELSE d[x]]

\* dict without key, as left behind by d.pop(key) / d.pop(key, default)
DictDel(d, key) == [x \in (DOMAIN d) \ {key} |-> d[x]]

(***************************************************************************)
(* json.loads on a tokenised text.  Tokens are punctuation, string         *)
(* literals and bare words.  The grammar covers strings, empty lists and   *)
(* objects whose member values are strings or empty lists; a repeated key  *)
(* keeps its last value, as Python's decoder does.                         *)
(***************************************************************************)
P(c) == [t |-> "punct", v |-> c]
S(s) == [t |-> "str", v |-> s]
W(w) == [t |-> "word", v |-> w]

JSONDecodeError == [err |-> "JSONDecodeError", kind |-> "none", dict |-> EmptyDict, leaf |-> Str("")]
Decoded(kind, d, leaf) == [err |-> "none", kind |-> kind, dict |-> d, leaf |-> leaf]

RECURSIVE ParseMembers(_, _, _)
\* toks[i] is expected to start a member "key : value"; acc holds the
\* members decoded so far
ParseMembers(toks, i, acc) ==
    IF i + 2 > Len(toks) \/ toks[i].t # "str" \/ toks[i + 1] # P(":")
    THEN JSONDecodeError
    ELSE LET key == toks[i].v
             isStr == toks[i + 2].t = "str"
             isList == /\ toks[i + 2] = P("[")
                       /\ i + 3 <= Len(toks)
                       /\ toks[i + 3] = P("]")
             val == IF isStr THEN Str(toks[i + 2].v) ELSE List
             j == IF isStr THEN i + 3 ELSE i + 4
         IN  IF ~(isStr \/ isList) \/ j > Len(toks)
             THEN JSONDecodeError
             ELSE IF toks[j] = P("}")
                  THEN IF j = Len(toks)
                       THEN Decoded("dict", DictSet(acc, key, val), Str(""))
                       ELSE JSONDecodeError
                  ELSE IF toks[j] = P(",")
                       THEN ParseMembers(toks, j + 1, DictSet(acc, key, val))
                       ELSE JSONDecodeError

json_loads(toks) ==
    IF Len(toks) = 0 THEN JSONDecodeError
    ELSE IF toks[1].t = "str"
         THEN IF Len(toks) = 1 THEN Decoded("str", EmptyDict, Str(toks[1].v))
              ELSE JSONDecodeError
    ELSE IF toks[1] = P("[")
         THEN IF Len(toks) = 2 /\ toks[2] = P("]") THEN Decoded("list", EmptyDict, List)
              ELSE JSONDecodeError
    ELSE IF toks[1] = P("{")
         THEN IF Len(toks) = 2 /\ toks[2] = P("}") THEN Decoded("dict", EmptyDict, Str(""))
              ELSE ParseMembers(toks, 2, EmptyDict)
    ELSE JSONDecodeError

(***************************************************************************)
(* str.format on a template.  A template is a sequence of literal chunks,  *)
(* escaped braces and replacement fields; a field whose name is not among  *)
(* the keyword arguments raises KeyError.                                  *)
(***************************************************************************)
L == [t |-> "lit", v |-> ""]
E == [t |-> "esc", v |-> ""]
F(name) == [t |-> "field", v |-> name]

FormatError == [err |-> "KeyError", text |-> << >>]

format(template, kwargs) ==
    IF \E i \in 1..Len(template) :
           template[i].t = "field" /\ template[i].v \notin DOMAIN kwargs
    THEN FormatError
    ELSE [err |-> "none",
          text |-> [i \in 1..Len(template) |->
                      IF template[i].t = "field"
                      THEN [t |-> "value", v |-> kwargs[template[i].v]]
                      ELSE [t |-> template[i].t, v |-> << >>]]]

\* The unescaped "{" that opens each JSON sample of the template starts a
\* replacement field named by the text up to the next ":".
DEFAULT_SYSTEM_TEMPLATE ==
    << L, F("character_info"), L, F("world_description"), L,
       F("state_descriptions"), L, F("available_actions"), L,
       F("agent_guidelines"), L, F("\n    \"reasoning\""), L,
       F("\n    \"reasoning\"") >>

DEFAULT_USER_TEMPLATE ==
    << L, F("state"), L, F("action_history"), L, F("goal"), L >>

\* Templates a caller passes to the constructor instead of the defaults:
\* every field is one of the documented placeholders.
CallerSystemTemplate ==
    << L, F("character_info"), L, F("world_description"), L,
       F("state_descriptions"), L, F("available_actions"), L,
       F("agent_guidelines"), L, E, L, E >>

CallerUserTemplate == << L, F("state"), L, F("action_history") >>

TemplatePairs ==
    { [system |-> DEFAULT_SYSTEM_TEMPLATE, user |-> DEFAULT_USER_TEMPLATE],
      [system |-> CallerSystemTemplate, user |-> CallerUserTemplate] }

(***************************************************************************)
(* Inputs.                                                                 *)
(***************************************************************************)
Names == {"wave", "post"}        \* names used in register_action

\* Action(func, description, required_params, example)
Action(func, description, required_params, example) ==
    [func |-> func, description |-> description,
     required_params |-> required_params, example |-> example]

Actions ==
    { Action("f1", "d1", EmptyDict, EmptyDict),
      Action("f2", "d2", [content |-> "str"], [content |-> "hi"]) }

Results == {"r1", "r2"}          \* values a handler returns
Errors == {"boom"}               \* str(e) of the exceptions a handler raises

\* keyword arguments of the direct execute_action calls
NoArgs == EmptyDict
ContentArgs == [content |-> Str("hi")]

ExecuteInputs ==
    { [name |-> Str("wave"), reasoning |-> Str("greet"), kwargs |-> NoArgs],
      [name |-> Str("post"), reasoning |-> Str(""), kwargs |-> ContentArgs],
      [name |-> Str("nonexistent"), reasoning |-> Str(""), kwargs |-> NoArgs] }

\* texts the provider returns (LLMResponse.content), tokenised
Obj1(k1, v1) == << P("{"), S(k1), P(":"), S(v1), P("}") >>
Obj2(k1, v1, k2, v2) ==
    << P("{"), S(k1), P(":"), S(v1), P(","), S(k2), P(":"), S(v2), P("}") >>

Responses ==
    { Obj2("action", "wave", "reasoning", "greet"),
      Obj1("action", "wave"),
      Obj2("action", "post", "content", "hi"),
      Obj1("action", "nonexistent"),
      Obj2("action", "wave", "action_name", "x"),
      Obj2("action", "wave", "action", "nonexistent"),
      Obj1("reasoning", "greet"),
      << P("{"), S("action"), P(":"), P("["), P("]"), P("}") >>,
      << P("["), P("]") >>,
      << W("not"), W("json") >>,
      << P("{"), S("action"), P(":"), S("wave") >> }

(***************************************************************************)
(* ActionRegistry (game/core/actions.py).  _actions is a dict from name    *)
(* to Action.                                                              *)
(***************************************************************************)
None == Action("None", "None", EmptyDict, EmptyDict)

\* register as setdefault: a name already present keeps its first action
registerKeepFirst(actions, name, action) ==
    IF name \in DOMAIN actions THEN actions ELSE DictSet(actions, name, action)

\* ActionRegistry.register: self._actions[name] = action
register(actions, name, action) == DictSet(actions, name, action)

\* get_action by subscript, self._actions[name]: an absent name raises
\* KeyError instead of giving None
get_actionSubscript(actions, name) ==
    IF name.v \in DOMAIN actions THEN actions[name.v]
    ELSE Action("KeyError", "KeyError", EmptyDict, EmptyDict)

\* get_action with a fallback, self._actions.get(name, default): an absent
\* name resolves to a stand-in action, never to None
get_actionDefault(actions, name) ==
    IF name.v \in DOMAIN actions THEN actions[name.v]
    ELSE Action("f1", "d1", EmptyDict, EmptyDict)

\* ActionRegistry.get_action: self._actions.get(name)
get_action(actions, name) ==
    IF name.v \in DOMAIN actions THEN actions[name.v] ELSE None

\* ActionRegistry.get_action_descriptions
get_action_descriptions(actions) ==
    [name \in DOMAIN actions |->
        [description |-> actions[name].description,
         required_params |-> actions[name].required_params,
         example |-> actions[name].example]]

(***************************************************************************)
(* Agent: prompt construction.                                             *)
(***************************************************************************)
\* lst[-n:]
LastN(lst, n) ==
    IF n = 0 \/ n >= Len(lst) THEN lst
    ELSE SubSeq(lst, Len(lst) - n + 1, Len(lst))

\* Agent._format_action_history: every rendered entry is read through the
\* keys name, timestamp, reasoning and result
format_action_history(history, maxh) ==
    IF Len(history) = 0
    THEN [err |-> "none", text |-> << "No previous actions taken." >>]
    ELSE LET window == LastN(history, maxh)
         IN  IF \A i \in 1..Len(window) :
                    {"name", "timestamp", "reasoning", "result"}
                        \subseteq DOMAIN window[i]
             THEN [err |-> "none",
                   text |-> [i \in 1..Len(window) |->
                               << window[i].name, window[i].timestamp,
                                  window[i].reasoning, window[i].result >>]]
             ELSE FormatError

\* Agent.build_system_prompt
build_system_prompt(template, actions) ==
    format(template,
           [character_info |-> EmptyDict,
            world_description |-> "world",
            state_descriptions |-> EmptyDict,
            available_actions |-> get_action_descriptions(actions),
            agent_guidelines |-> << >>])

\* Agent.build_user_prompt
build_user_prompt(template, history, maxh, state) ==
    LET h == format_action_history(history, maxh)
    IN  IF h.err # "none" THEN FormatError
        ELSE format(template, [state |-> state, action_history |-> h.text])

\* get_next_action up to its await: the exception raised while the two
\* prompts are built, or "none" when the provider call is reached
BuildPrompts(systemT, userT, actions, history, maxh, state) ==
    IF build_system_prompt(systemT, actions).err # "none"
    THEN build_system_prompt(systemT, actions).err
    ELSE build_user_prompt(userT, history, maxh, state).err

(***************************************************************************)
(* Agent: action execution.                                                *)
(***************************************************************************)
ActionResult(success, message, data) ==
    [success |-> success, message |-> message, data |-> data]

NoResult == ActionResult(FALSE, [fmt |-> "", arg |-> ""], "None")

\* NotFound with a fixed message that does not carry the name
NotFoundAnon(action_name) ==
    [success |-> FALSE, message |-> [fmt |-> "Action not found", arg |-> ""],
     data |-> "None"]

\* f"Action '{action_name}' not found"
NotFound(action_name) ==
    ActionResult(FALSE, [fmt |-> "Action '{}' not found", arg |-> action_name.v], "None")

\* f"Action failed: {str(e)}"
Failed(e) == ActionResult(FALSE, [fmt |-> "Action failed: {}", arg |-> e], "None")

\* Succeeded without the handler's value as data
SucceededNoData(result) ==
    [success |-> TRUE,
     message |-> [fmt |-> "Action executed successfully", arg |-> ""],
     data |-> "None"]

Succeeded(result) ==
    ActionResult(TRUE, [fmt |-> "Action executed successfully", arg |-> ""], result)

HistoryEntry(action_name, kwargs, reasoning, result) ==
    [name |-> action_name, parameters |-> kwargs,
     reasoning |-> reasoning, result |-> result]

\* Store without the size check: nothing is ever evicted
StoreNoEvict(history, entry, maxh) == Append(history, entry)

\* Store evicting with pop() instead of pop(0): the newest entry is dropped
StoreDropNewest(history, entry, maxh) ==
    LET appended == Append(history, entry)
    IN  IF Len(appended) > maxh THEN SubSeq(appended, 1, Len(appended) - 1)
        ELSE appended

\* append, then pop(0) when the list is longer than max_history
Store(history, entry, maxh) ==
    LET appended == Append(history, entry)
    IN  IF Len(appended) > maxh THEN Tail(appended) ELSE appended

\* names of the parameters of execute_action that **kwargs cannot carry:
\* passing one of them as a keyword is a TypeError at the call
BoundParams == {"self", "action_name", "reasoning"}

(***************************************************************************)
(* State.                                                                  *)
(***************************************************************************)
VARIABLES
    max_history,      \* Agent.max_history
    system_template,  \* Agent.system_template
    user_template,    \* Agent.user_template
    action_registry,  \* Agent.action_registry._actions
    action_history,   \* Agent.action_history
    pc,               \* the await at which the running operation is suspended
    cur,              \* execute_action's frame while its handler runs
    loop,             \* run_loop's frame: max_steps, step and loop state
    action_data,      \* run_loop: the value get_next_action returned
    ret,              \* outcome of the last operation that completed
    executed,         \* every entry ever stored, in order
    regs,             \* every registration made, in order
    hist0,            \* action_history when the operation / loop step began
    events,           \* collaborator calls of the running or last operation
    resolved,         \* how the last of these calls resolved
    fault,            \* a collaborator failed during the running or last run_loop
    tasks,            \* execute_action calls running as concurrent tasks
    cache,            \* TwitterEnv._cache
    cache_timestamp,  \* TwitterEnv._cache_timestamp
    cache_duration,   \* TwitterEnv.cache_duration
    now,              \* what datetime.now() returns, in seconds
    last,             \* the last TwitterEnv.get_state call and its outcome
    fetched           \* the last fetch that succeeded: its time and state

vars == << max_history, system_template, user_template, action_registry,
           action_history, pc, cur, loop, action_data, ret, executed, regs,
           hist0, events, resolved, fault, tasks, cache, cache_timestamp,
           cache_duration, now, last, fetched >>

config == << max_history, system_template, user_template >>

twitter == << cache, cache_timestamp, cache_duration, now, last, fetched >>

NoCall == [name |-> Str(""), reasoning |-> Str(""), kwargs |-> EmptyDict, func |-> "None"]
NoData == JSONDecodeError

Ret(op, raised, result, value) ==
    [op |-> op, raised |-> raised, result |-> result, value |-> value]

NoLoop == [max_steps |-> 0, step |-> 0, state |-> "None", result |-> NoResult,
           error |-> "none"]

\* resolution of a collaborator call: it raised, or returned v (a handler's
\* value) or text (the provider's content)
Resolved(call, raised, v, text) ==
    [call |-> call, raised |-> raised, v |-> v, text |-> text]
Unresolved == Resolved("none", FALSE, "None", << >>)

\* no outcome yet: an operation is running
Pending == Ret("none", "none", NoResult, NoData)

Event(ev, step, func, kwargs) ==
    [ev |-> ev, step |-> step, func |-> func, kwargs |-> kwargs]

\* no task yet: started counts the calls made, flight holds the frames of
\* the calls suspended in their handlers, done the calls that returned, in
\* the order they returned
NoTasks == [started |-> 0, flight |-> {}, done |-> << >>]

\* TwitterEnv: _cache_timestamp is None until a fetch has succeeded
NoTimestamp == -1

\* no fetch has succeeded yet
NoFetch == [t |-> NoTimestamp, state |-> EmptyDict]

\* a get_state call: the time it read at line 89, whether it returned the
\* cache at line 95, the API calls it made, whether the fetch raised, the
\* value it returned (the call itself raises nothing: lines 163-168 catch
\* every Exception); and, as they were when it was called, the cache, its
\* timestamp, the last successful fetch, and whether the fetch attempted
\* last had failed
GetStateCall(at, cached, calls, failed, value, cache0, timestamp0, fetched0, retry0) ==
    [at |-> at, cached |-> cached, calls |-> calls, failed |-> failed,
     raised |-> "none", ret |-> value, cache0 |-> cache0, timestamp0 |-> timestamp0,
     fetched0 |-> fetched0, retry0 |-> retry0]

NoGetState ==
    GetStateCall(NoTimestamp, FALSE, 0, FALSE, EmptyDict, EmptyDict,
                 NoTimestamp, NoFetch, FALSE)

\* TwitterEnv.__init__, lines 28-31
TwitterEnvInit(duration) ==
    /\ cache = EmptyDict
    /\ cache_timestamp = NoTimestamp
    /\ cache_duration = duration
    /\ now = 0
    /\ last = NoGetState
    /\ fetched = NoFetch

\* Agent.__init__
AgentInit ==
    /\ max_history \in 1..MaxHist
    /\ \E t \in TemplatePairs :
          /\ system_template = t.system
          /\ user_template = t.user
    /\ action_registry = EmptyDict
    /\ action_history = << >>
    /\ pc = "idle"
    /\ cur = NoCall
    /\ loop = NoLoop
    /\ action_data = NoData
    /\ ret = Ret("init", "none", NoResult, NoData)
    /\ executed = << >>
    /\ regs = << >>
    /\ hist0 = << >>
    /\ events = << >>
    /\ resolved = Unresolved
    /\ fault = FALSE
    /\ tasks = NoTasks

\* the operations of the Agent never call into a TwitterEnv: its variables
\* keep the value they are given here
Init == AgentInit /\ TwitterEnvInit(MaxDuration)

(***************************************************************************)
(* Agent.register_action                                                   *)
(***************************************************************************)
RegisterAction(name, action) ==
    /\ pc = "idle"
    /\ Len(regs) < MaxRegs
    /\ action_registry' = register(action_registry, name, action)
    /\ regs' = Append(regs, [name |-> name, action |-> action])
    /\ ret' = Ret("register_action", "none", NoResult, NoData)
    /\ hist0' = action_history
    /\ events' = << >>
    /\ resolved' = Unresolved
    /\ cur' = NoCall
    /\ loop' = NoLoop
    /\ action_data' = NoData
    /\ fault' = FALSE
    /\ UNCHANGED << config, twitter, tasks, action_history, pc, executed >>

(***************************************************************************)
(* Agent.execute_action, called directly.  The call runs to the await of   *)
(* the handler (ExecuteActionCall) and resumes when the handler returns    *)
(* or raises (ExecuteActionReturn).                                        *)
(***************************************************************************)
\* the frame of a call whose lookup found the action
Frame(action_name, reasoning, kwargs, action) ==
    [name |-> action_name, reasoning |-> reasoning, kwargs |-> kwargs,
     func |-> action.func]

\* outcome of the handler: a return value or a raised exception
Returns(r) == [raised |-> FALSE, v |-> r]
Raises(e) == [raised |-> TRUE, v |-> e]
Outcomes == {Returns(r) : r \in Results} \cup {Raises(e) : e \in Errors}

\* the handlers registered: f1 returns "r1" and f2 returns "r2" when they
\* do not raise
ResultOf(func) == IF func = "f1" THEN "r1" ELSE "r2"
HandlerOutcomes(func) == {o \in Outcomes : o.raised \/ o.v = ResultOf(func)}

\* HistoryAfter with the entry stored whether or not the handler raised
HistoryAfterAlways(history, frame, outcome, maxh) ==
    Store(history,
          HistoryEntry(frame.name, frame.kwargs, frame.reasoning,
                       IF outcome.raised THEN "None" ELSE outcome.v),
          maxh)

\* lines 94-112: the history after the handler resolved
HistoryAfter(history, frame, outcome, maxh) ==
    IF outcome.raised THEN history
    ELSE Store(history,
               HistoryEntry(frame.name, frame.kwargs, frame.reasoning, outcome.v),
               maxh)

\* lines 94-112: the ActionResult returned after the handler resolved
ResultAfter(outcome) ==
    IF outcome.raised THEN Failed(outcome.v) ELSE Succeeded(outcome.v)

LogAfter(frame, outcome) ==
    IF outcome.raised THEN executed
    ELSE Append(executed,
                HistoryEntry(frame.name, frame.kwargs, frame.reasoning, outcome.v))

ExecuteActionCall(in) ==
    /\ pc = "idle"
    /\ Len(executed) < MaxLog
    /\ hist0' = action_history
    /\ LET action == get_action(action_registry, in.name)
       IN  IF action = None
           THEN /\ ret' = Ret("execute_action", "none", NotFound(in.name), NoData)
                /\ events' = << >>
                /\ UNCHANGED pc
           ELSE /\ pc' = "exec_handler"
                /\ events' = << Event("handler", 0, action.func, in.kwargs) >>
                /\ ret' = Pending
    /\ cur' = Frame(in.name, in.reasoning, in.kwargs,
                    get_action(action_registry, in.name))
    /\ resolved' = Unresolved
    /\ loop' = NoLoop
    /\ action_data' = NoData
    /\ fault' = FALSE
    /\ UNCHANGED << config, twitter, tasks, action_registry, action_history, executed, regs >>

ExecuteActionReturn(outcome) ==
    /\ pc = "exec_handler"
    /\ outcome \in HandlerOutcomes(cur.func)
    /\ action_history' = HistoryAfter(action_history, cur, outcome, max_history)
    /\ executed' = LogAfter(cur, outcome)
    /\ ret' = Ret("execute_action", "none", ResultAfter(outcome), NoData)
    /\ resolved' = Resolved("handler", outcome.raised, outcome.v, << >>)
    /\ pc' = "idle"
    /\ UNCHANGED << config, twitter, tasks, action_registry, cur, loop, action_data, regs,
                    hist0, events, fault >>

(***************************************************************************)
(* Agent.build_system_prompt and Agent.build_user_prompt, called directly. *)
(***************************************************************************)
States == {"state"}               \* what Environment.get_state returns

\* what an operation that awaits nothing leaves behind
Atomic(op, raised) ==
    /\ ret' = Ret(op, raised, NoResult, NoData)
    /\ hist0' = action_history
    /\ events' = << >>
    /\ resolved' = Unresolved
    /\ cur' = NoCall
    /\ loop' = NoLoop
    /\ action_data' = NoData
    /\ fault' = FALSE

BuildSystemPrompt ==
    /\ pc = "idle"
    /\ Atomic("build_system_prompt",
              build_system_prompt(system_template, action_registry).err)
    /\ UNCHANGED << config, twitter, tasks, action_registry, action_history, pc, executed, regs >>

\* BuildUserPrompt with the history emptied once it has been rendered
BuildUserPromptConsume(state) ==
    /\ pc = "idle"
    /\ Atomic("build_user_prompt",
              build_user_prompt(user_template, action_history, max_history, state).err)
    /\ action_history' = << >>
    /\ UNCHANGED << config, twitter, tasks, action_registry, pc, executed, regs >>

BuildUserPrompt(state) ==
    /\ pc = "idle"
    /\ Atomic("build_user_prompt",
              build_user_prompt(user_template, action_history, max_history, state).err)
    /\ UNCHANGED << config, twitter, tasks, action_registry, action_history, pc, executed, regs >>

(***************************************************************************)
(* Agent.get_next_action, called directly.                                 *)
(***************************************************************************)

ProviderReturns(text) == [raised |-> FALSE, text |-> text]
ProviderRaises == [raised |-> TRUE, text |-> << >>]
ProviderOutcomes == {ProviderReturns(t) : t \in Responses} \cup {ProviderRaises}

\* Resolve with a decode error swallowed: an empty mapping is returned
ResolveLenient(po) ==
    IF po.raised THEN [raised |-> "ProviderError", value |-> NoData]
    ELSE LET decoded == json_loads(po.text)
         IN  IF decoded.err # "none"
             THEN [raised |-> "none", value |-> Decoded("dict", EmptyDict, Str(""))]
             ELSE [raised |-> "none", value |-> decoded]

\* lines 124-128: what get_next_action does with the provider's answer:
\* the exception it raises ("none" when it returns) and the value returned
Resolve(po) ==
    IF po.raised THEN [raised |-> "ProviderError", value |-> NoData]
    ELSE LET decoded == json_loads(po.text)
         IN  IF decoded.err # "none"
             THEN [raised |-> "ValueError", value |-> NoData]
             ELSE [raised |-> "none", value |-> decoded]

GetNextActionCall(state) ==
    /\ pc = "idle"
    /\ hist0' = action_history
    /\ LET err == BuildPrompts(system_template, user_template, action_registry,
                               action_history, max_history, state)
       IN  IF err # "none"
           THEN /\ ret' = Ret("get_next_action", err, NoResult, NoData)
                /\ events' = << >>
                /\ UNCHANGED pc
           ELSE /\ pc' = "gna_provider"
                /\ events' = << Event("generate_response", 0, "None", EmptyDict) >>
                /\ ret' = Pending
    /\ resolved' = Unresolved
    /\ cur' = NoCall
    /\ loop' = NoLoop
    /\ action_data' = NoData
    /\ fault' = FALSE
    /\ UNCHANGED << config, twitter, tasks, action_registry, action_history, executed, regs >>

GetNextActionReturn(po) ==
    /\ pc = "gna_provider"
    /\ ret' = Ret("get_next_action", Resolve(po).raised, NoResult, Resolve(po).value)
    /\ resolved' = Resolved("generate_response", po.raised, "None", po.text)
    /\ pc' = "idle"
    /\ UNCHANGED << config, twitter, tasks, action_registry, action_history, cur, loop,
                    action_data, executed, regs, hist0, events, fault >>

(***************************************************************************)
(* Agent.run_loop.  One action per await: the environment's get_state, the *)
(* provider's generate_response, the action handler, asyncio.sleep.        *)
(***************************************************************************)
\* Dispatch with action_data.pop("action", None): a mapping without the key
\* is dispatched under the name None, which the lookup does not find
DispatchGet(decoded, actions) ==
    LET d == decoded.dict
        action_name == IF "action" \in DOMAIN d THEN d["action"] ELSE Str("None")
        reasoning == IF "reasoning" \in DOMAIN d THEN d["reasoning"] ELSE Str("")
        kwargs == DictDel(DictDel(d, "action"), "reasoning")
        none == [raised |-> "none", found |-> FALSE, result |-> NoResult, frame |-> NoCall]
    IN  IF decoded.kind = "list" THEN [none EXCEPT !.raised = "TypeError"]
        ELSE IF decoded.kind = "str" THEN [none EXCEPT !.raised = "AttributeError"]
        ELSE IF (DOMAIN kwargs) \cap BoundParams # {}
             THEN [none EXCEPT !.raised = "TypeError"]
        ELSE IF ~Hashable(action_name) THEN [none EXCEPT !.raised = "TypeError"]
        ELSE IF get_action(actions, action_name) = None
             THEN [none EXCEPT !.result = NotFound(action_name),
                               !.frame = Frame(action_name, reasoning, kwargs, None)]
        ELSE [none EXCEPT !.found = TRUE,
                          !.frame = Frame(action_name, reasoning, kwargs,
                                          get_action(actions, action_name))]

\* lines 139-147 on the mapping get_next_action returned: the exception
\* raised before the handler is awaited, else the ActionResult of a failed
\* lookup, else the frame of the call now awaiting its handler
Dispatch(decoded, actions) ==
    LET d == decoded.dict
        action_name == d["action"]
        reasoning == IF "reasoning" \in DOMAIN d THEN d["reasoning"] ELSE Str("")
        kwargs == DictDel(DictDel(d, "action"), "reasoning")
        none == [raised |-> "none", found |-> FALSE, result |-> NoResult, frame |-> NoCall]
    IN  IF decoded.kind = "list" THEN [none EXCEPT !.raised = "TypeError"]
        ELSE IF decoded.kind = "str" THEN [none EXCEPT !.raised = "AttributeError"]
        ELSE IF "action" \notin DOMAIN d THEN [none EXCEPT !.raised = "KeyError"]
        ELSE IF (DOMAIN kwargs) \cap BoundParams # {}
             THEN [none EXCEPT !.raised = "TypeError"]
        ELSE IF ~Hashable(action_name) THEN [none EXCEPT !.raised = "TypeError"]
        ELSE IF get_action(actions, action_name) = None
             THEN [none EXCEPT !.result = NotFound(action_name),
                               !.frame = Frame(action_name, reasoning, kwargs, None)]
        ELSE [none EXCEPT !.found = TRUE,
                          !.frame = Frame(action_name, reasoning, kwargs,
                                          get_action(actions, action_name))]

\* the loop ends: break, or the for statement is exhausted
Stop(state, result, error) ==
    /\ loop' = [loop EXCEPT !.state = state, !.result = result, !.error = error]
    /\ ret' = Ret("run_loop", "none", NoResult, NoData)
    /\ pc' = "idle"

RunLoopStart(max_steps) ==
    /\ pc = "idle"
    /\ Len(executed) + max_steps <= MaxLog
    /\ loop' = [max_steps |-> max_steps, step |-> 0, state |-> "Running",
                result |-> NoResult, error |-> "none"]
    /\ pc' = "loop_env"
    /\ events' = << Event("get_state", 0, "None", EmptyDict) >>
    /\ fault' = FALSE
    /\ hist0' = action_history
    /\ action_data' = NoData
    /\ cur' = NoCall
    /\ ret' = Pending
    /\ resolved' = Unresolved
    /\ UNCHANGED << config, twitter, tasks, action_registry, action_history, executed, regs >>

\* LoopGetState with the get_state call outside the try statement: its
\* exception leaves run_loop
LoopGetStateUnguarded(ok, state) ==
    /\ pc = "loop_env"
    /\ LET err == BuildPrompts(system_template, user_template, action_registry,
                               action_history, max_history, state)
       IN  IF ~ok
           THEN /\ ret' = Ret("run_loop", "EnvironmentError", NoResult, NoData)
                /\ pc' = "idle"
                /\ fault' = TRUE
                /\ UNCHANGED << events, loop >>
           ELSE IF err # "none"
           THEN /\ Stop("StoppedOnError", loop.result, err)
                /\ UNCHANGED << events, fault >>
           ELSE /\ pc' = "loop_provider"
                /\ events' = Append(events,
                                Event("generate_response", loop.step, "None", EmptyDict))
                /\ UNCHANGED << loop, ret, fault >>
    /\ resolved' = Resolved("get_state", ~ok, "None", << >>)
    /\ UNCHANGED << config, twitter, tasks, action_registry, action_history, cur, action_data,
                    executed, regs, hist0 >>

\* Environment.get_state resolves; on success get_next_action builds the
\* prompts and awaits the provider
LoopGetState(ok, state) ==
    /\ pc = "loop_env"
    /\ LET err == BuildPrompts(system_template, user_template, action_registry,
                               action_history, max_history, state)
       IN  IF ~ok
           THEN /\ Stop("StoppedOnError", loop.result, "EnvironmentError")
                /\ fault' = TRUE
                /\ UNCHANGED events
           ELSE IF err # "none"
           THEN /\ Stop("StoppedOnError", loop.result, err)
                /\ UNCHANGED << events, fault >>
           ELSE /\ pc' = "loop_provider"
                /\ events' = Append(events,
                                Event("generate_response", loop.step, "None", EmptyDict))
                /\ UNCHANGED << loop, ret, fault >>
    /\ resolved' = Resolved("get_state", ~ok, "None", << >>)
    /\ UNCHANGED << config, twitter, tasks, action_registry, action_history, cur, action_data,
                    executed, regs, hist0 >>

\* a directive as section 6 describes it: an object whose action names a
\* registered action and whose other keys are parameters of the handler
WellFormed(decoded, actions) ==
    /\ decoded.err = "none"
    /\ decoded.kind = "dict"
    /\ "action" \in DOMAIN decoded.dict
    /\ Hashable(decoded.dict["action"])
    /\ decoded.dict["action"].v \in DOMAIN actions
    /\ (DOMAIN decoded.dict) \cap BoundParams \subseteq {"reasoning"}

\* the provider resolves; get_next_action decodes the answer and run_loop
\* dispatches it up to the await of the handler
LoopProvider(po) ==
    /\ pc = "loop_provider"
    /\ LET r == Resolve(po)
           d == Dispatch(r.value, action_registry)
       IN  /\ fault' = (fault \/ r.raised # "none"
                              \/ ~WellFormed(r.value, action_registry))
           /\ IF r.raised # "none"
              THEN /\ Stop("StoppedOnError", loop.result, r.raised)
                   /\ UNCHANGED << action_data, cur, events >>
              ELSE /\ action_data' = r.value
                   /\ IF d.raised # "none"
                      THEN /\ Stop("StoppedOnError", loop.result, d.raised)
                           /\ UNCHANGED << cur, events >>
                      ELSE IF ~d.found
                      THEN /\ Stop("StoppedOnFailure", d.result, "none")
                           /\ cur' = d.frame
                           /\ UNCHANGED events
                      ELSE /\ pc' = "loop_handler"
                           /\ cur' = d.frame
                           /\ events' = Append(events,
                                  Event("handler", loop.step, d.frame.func, d.frame.kwargs))
                           /\ UNCHANGED << loop, ret >>
    /\ resolved' = Resolved("generate_response", po.raised, "None", po.text)
    /\ UNCHANGED << config, twitter, tasks, action_registry, action_history, executed, regs, hist0 >>

\* LoopHandler without the check of result.success: the loop goes on to
\* the pause after a failed execution
LoopHandlerNoBreak(outcome) ==
    /\ pc = "loop_handler"
    /\ outcome \in HandlerOutcomes(cur.func)
    /\ action_history' = HistoryAfter(action_history, cur, outcome, max_history)
    /\ executed' = LogAfter(cur, outcome)
    /\ loop' = [loop EXCEPT !.result = ResultAfter(outcome)]
    /\ pc' = "loop_sleep"
    /\ events' = Append(events, Event("sleep", loop.step, "None", EmptyDict))
    /\ fault' = (fault \/ outcome.raised)
    /\ resolved' = Resolved("handler", outcome.raised, outcome.v, << >>)
    /\ UNCHANGED << config, twitter, tasks, action_registry, cur, action_data, regs, hist0, ret >>

\* LoopHandler without "await asyncio.sleep(1)": a successful execution is
\* followed at once by the next step
LoopHandlerNoPause(outcome) ==
    /\ pc = "loop_handler"
    /\ outcome \in HandlerOutcomes(cur.func)
    /\ action_history' = HistoryAfter(action_history, cur, outcome, max_history)
    /\ executed' = LogAfter(cur, outcome)
    /\ IF ~ResultAfter(outcome).success
       THEN /\ Stop("StoppedOnFailure", ResultAfter(outcome), "none")
            /\ fault' = TRUE
            /\ UNCHANGED events
       ELSE IF loop.step + 1 >= loop.max_steps
       THEN /\ Stop("Completed", ResultAfter(outcome), "none")
            /\ UNCHANGED << events, fault >>
       ELSE /\ loop' = [loop EXCEPT !.result = ResultAfter(outcome),
                                    !.step = loop.step + 1]
            /\ pc' = "loop_env"
            /\ events' = Append(events,
                               Event("get_state", loop.step + 1, "None", EmptyDict))
            /\ UNCHANGED << ret, fault >>
    /\ resolved' = Resolved("handler", outcome.raised, outcome.v, << >>)
    /\ UNCHANGED << config, twitter, tasks, action_registry, cur, action_data, regs, hist0 >>

\* the handler resolves; execute_action returns and run_loop breaks or
\* awaits the pause
LoopHandler(outcome) ==
    /\ pc = "loop_handler"
    /\ outcome \in HandlerOutcomes(cur.func)
    /\ action_history' = HistoryAfter(action_history, cur, outcome, max_history)
    /\ executed' = LogAfter(cur, outcome)
    /\ IF ~ResultAfter(outcome).success
       THEN /\ Stop("StoppedOnFailure", ResultAfter(outcome), "none")
            /\ fault' = TRUE
            /\ UNCHANGED events
       ELSE /\ loop' = [loop EXCEPT !.result = ResultAfter(outcome)]
            /\ pc' = "loop_sleep"
            /\ events' = Append(events, Event("sleep", loop.step, "None", EmptyDict))
            /\ UNCHANGED << ret, fault >>
    /\ resolved' = Resolved("handler", outcome.raised, outcome.v, << >>)
    /\ UNCHANGED << config, twitter, tasks, action_registry, cur, action_data, regs, hist0 >>

\* LoopSleep under "while True" instead of "for step in range(max_steps)":
\* the pause is always followed by another step
LoopSleepNoStop ==
    /\ pc = "loop_sleep"
    /\ loop' = [loop EXCEPT !.step = loop.step + 1]
    /\ pc' = "loop_env"
    /\ events' = Append(events, Event("get_state", loop.step + 1, "None", EmptyDict))
    /\ hist0' = action_history
    /\ action_data' = NoData
    /\ cur' = NoCall
    /\ resolved' = Resolved("sleep", FALSE, "None", << >>)
    /\ UNCHANGED << config, twitter, tasks, action_registry, action_history, executed, regs,
                    fault, ret >>

\* the pause ends; the next step begins or the loop is exhausted
LoopSleep ==
    /\ pc = "loop_sleep"
    /\ IF loop.step + 1 >= loop.max_steps
       THEN /\ Stop("Completed", loop.result, "none")
            /\ UNCHANGED << events, hist0, action_data, cur >>
       ELSE /\ loop' = [loop EXCEPT !.step = loop.step + 1]
            /\ pc' = "loop_env"
            /\ events' = Append(events, Event("get_state", loop.step + 1, "None", EmptyDict))
            /\ hist0' = action_history
            /\ action_data' = NoData
            /\ cur' = NoCall
            /\ UNCHANGED ret
    /\ resolved' = Resolved("sleep", FALSE, "None", << >>)
    /\ UNCHANGED << config, twitter, tasks, action_registry, action_history, executed, regs, fault >>

Next ==
    \/ \E name \in Names, action \in Actions : RegisterAction(name, action)
    \/ \E in \in ExecuteInputs : ExecuteActionCall(in)
    \/ \E outcome \in Outcomes : ExecuteActionReturn(outcome)
    \/ BuildSystemPrompt
    \/ \E state \in States : BuildUserPrompt(state)
    \/ \E state \in States : GetNextActionCall(state)
    \/ \E po \in ProviderOutcomes : GetNextActionReturn(po)
    \/ \E max_steps \in 1..MaxSteps : RunLoopStart(max_steps)
    \/ \E ok \in BOOLEAN, state \in States : LoopGetState(ok, state)
    \/ \E po \in ProviderOutcomes : LoopProvider(po)
    \/ \E outcome \in Outcomes : LoopHandler(outcome)
    \/ LoopSleep

Spec == Init /\ [][Next]_vars

\* every collaborator awaited by run_loop eventually resolves: the event
\* loop resumes the coroutine once the awaited call has returned or raised
LiveSpec ==
    /\ Spec
    /\ WF_vars(\E ok \in BOOLEAN, state \in States : LoopGetState(ok, state))
    /\ WF_vars(\E po \in ProviderOutcomes : LoopProvider(po))
    /\ WF_vars(\E outcome \in Outcomes : LoopHandler(outcome))
    /\ WF_vars(LoopSleep)

(***************************************************************************)
(* execute_action called from several tasks of one event loop              *)
(* (asyncio.gather, create_task).  A task runs lines 90-95 without         *)
(* yielding, is suspended at the await of its handler, and runs lines      *)
(* 96-112 without yielding when the handler resolves; the event loop       *)
(* resumes the suspended tasks in the order their handlers resolve.        *)
(***************************************************************************)
Task(id, frame) == [id |-> id, frame |-> frame]
Completion(id, frame, result) == [id |-> id, frame |-> frame, result |-> result]

\* a task calls execute_action: the lookup, then the await of the handler
ConcCall(in) ==
    /\ tasks.started < MaxLog
    /\ Cardinality(tasks.flight) < MaxInFlight
    /\ LET action == get_action(action_registry, in.name)
           id == tasks.started + 1
           frame == Frame(in.name, in.reasoning, in.kwargs, action)
       IN  tasks' = IF action = None
                    THEN [tasks EXCEPT
                            !.started = id,
                            !.done = Append(@, Completion(id, frame, NotFound(in.name)))]
                    ELSE [tasks EXCEPT
                            !.started = id,
                            !.flight = @ \cup {Task(id, frame)}]
    /\ UNCHANGED << config, twitter, action_registry, action_history, pc, cur, loop,
                    action_data, ret, executed, regs, hist0, events, resolved,
                    fault >>

\* ConcReturn with history.insert(0, entry) and pop(): the entry of the
\* call that returns is put before those of the calls that returned earlier
ConcReturnPrepend(id, outcome) ==
    /\ \E t \in tasks.flight :
          /\ t.id = id
          /\ outcome \in HandlerOutcomes(t.frame.func)
          /\ action_history' =
                IF outcome.raised THEN action_history
                ELSE LET e == HistoryEntry(t.frame.name, t.frame.kwargs,
                                           t.frame.reasoning, outcome.v)
                         h == << e >> \o action_history
                     IN  IF Len(h) > max_history THEN SubSeq(h, 1, Len(h) - 1)
                         ELSE h
          /\ executed' = LogAfter(t.frame, outcome)
          /\ tasks' = [tasks EXCEPT
                         !.flight = @ \ {t},
                         !.done = Append(@, Completion(id, t.frame, ResultAfter(outcome)))]
    /\ UNCHANGED << config, twitter, action_registry, pc, cur, loop, action_data, ret,
                    regs, hist0, events, resolved, fault >>

\* the handler of task id resolves: the task stores its entry and returns
ConcReturn(id, outcome) ==
    /\ \E t \in tasks.flight :
          /\ t.id = id
          /\ outcome \in HandlerOutcomes(t.frame.func)
          /\ action_history' = HistoryAfter(action_history, t.frame, outcome, max_history)
          /\ executed' = LogAfter(t.frame, outcome)
          /\ tasks' = [tasks EXCEPT
                         !.flight = @ \ {t},
                         !.done = Append(@, Completion(id, t.frame, ResultAfter(outcome)))]
    /\ UNCHANGED << config, twitter, action_registry, pc, cur, loop, action_data, ret,
                    regs, hist0, events, resolved, fault >>

\* the set-up before the tasks are created: each action is registered once
ConcRegister(name, action) ==
    /\ tasks.started = 0
    /\ name \notin DOMAIN action_registry
    /\ RegisterAction(name, action)

\* the templates play no part in execute_action: one pair is enough
ConcInit ==
    /\ Init
    /\ system_template = CallerSystemTemplate
    /\ user_template = CallerUserTemplate

ConcNext ==
    \/ \E name \in Names, action \in Actions : ConcRegister(name, action)
    \/ \E in \in ExecuteInputs : ConcCall(in)
    \/ \E id \in 1..MaxLog, outcome \in Outcomes : ConcReturn(id, outcome)

ConcSpec == ConcInit /\ [][ConcNext]_vars

(***************************************************************************)
(* TwitterEnv.get_state (game/environments/twitter_env.py).  The method is *)
(* synchronous: one action per call.  Times are whole seconds.  The        *)
(* tweepy client is a collaborator: each of its calls returns a response   *)
(* or raises, and the fetch takes up to MaxElapsed seconds.                *)
(***************************************************************************)
agent == << config, action_registry, action_history, pc, cur, loop,
            action_data, ret, executed, regs, hist0, events, resolved, fault,
            tasks >>

\* responses of the client: user.data.public_metrics, and tweets.data with
\* each tweet's public_metrics
Users == { [followers_count |-> 0, tweet_count |-> 0],
           [followers_count |-> 10, tweet_count |-> 1] }
Tweets == { << >>, << [like_count |-> 3, retweet_count |-> 2] >> }

RECURSIVE total_engagement(_)
total_engagement(tweets) ==
    IF Len(tweets) = 0 THEN 0
    ELSE Head(tweets).like_count + Head(tweets).retweet_count
            + total_engagement(Tail(tweets))

\* lines 110-118, in whole percent
engagement_rate(user, tweets) ==
    IF Len(tweets) > 0 /\ user.followers_count > 0
    THEN (total_engagement(tweets) * 100) \div (Len(tweets) * user.followers_count)
    ELSE 0

\* lines 148-156: the state mapping (the mentions, hashtags, following
\* count and account age are copied from the responses in the same way)
TwitterState(user, tweets) ==
    [follower_count |-> user.followers_count,
     tweet_count |-> user.tweet_count,
     engagement_rate |-> engagement_rate(user, tweets)]

\* the statements of the try block that can raise, and the API calls made
\* when each of them does
Stages == {"get_me", "get_users_tweets", "engagement", "get_users_mentions", "state"}
ApiCalls(stage) ==
    CASE stage = "get_me" -> 1
      [] stage \in {"get_users_tweets", "engagement"} -> 2
      [] OTHER -> 3

\* what the try block of lines 97-161 comes to: a state, or an exception
\* raised at one of the stages
Fetched(user, tweets) ==
    [ok |-> TRUE, state |-> TwitterState(user, tweets), calls |-> 3, e |-> ""]
FetchRaised(stage) ==
    [ok |-> FALSE, state |-> EmptyDict, calls |-> ApiCalls(stage), e |-> stage]
FetchOutcomes ==
    {Fetched(user, tweets) : user \in Users, tweets \in Tweets}
        \cup {FetchRaised(stage) : stage \in Stages}

\* CacheValid with <= in place of <: the cache is still served at
\* timestamp + cache_duration
CacheValidInclusive(timestamp, c, duration, current_time) ==
    /\ timestamp # NoTimestamp
    /\ current_time - timestamp <= duration
    /\ c # EmptyDict

\* lines 92-94
CacheValid(timestamp, c, duration, current_time) ==
    /\ timestamp # NoTimestamp
    /\ current_time - timestamp < duration
    /\ c # EmptyDict

\* OnFailure that never falls back on the cache
OnFailureError(c, e) ==
    [error |-> "Failed to fetch Twitter state", error_message |-> e]

\* lines 165-168: what the except clause returns
OnFailure(c, e) ==
    IF c # EmptyDict THEN c
    ELSE [error |-> "Failed to fetch Twitter state", error_message |-> e]

\* the fetch attempted last raised and none has succeeded since
Retrying == last.failed \/ (last.cached /\ last.retry0)

\* time passes between two calls
Tick ==
    /\ now < MaxTime
    /\ now' = now + 1
    /\ UNCHANGED << agent, cache, cache_timestamp, cache_duration, last, fetched >>

\* one get_state call: outcome is what the fetch comes to if it is made,
\* elapsed the seconds it takes
GetState(outcome, elapsed) ==
    LET current_time == now
        call(cached, calls, failed, value) ==
            GetStateCall(current_time, cached, calls, failed, value, cache,
                         cache_timestamp, fetched, Retrying)
    IN  IF CacheValid(cache_timestamp, cache, cache_duration, current_time)
        THEN /\ elapsed = 0
             /\ last' = call(TRUE, 0, FALSE, cache)
             /\ UNCHANGED << agent, cache, cache_timestamp, cache_duration, now,
                             fetched >>
        ELSE /\ now + elapsed <= MaxTime
             /\ now' = now + elapsed
             /\ IF outcome.ok
                THEN /\ cache' = outcome.state
                     /\ cache_timestamp' = current_time
                     /\ fetched' = [t |-> current_time, state |-> outcome.state]
                     /\ last' = call(FALSE, outcome.calls, FALSE, outcome.state)
                ELSE /\ last' = call(FALSE, outcome.calls, TRUE,
                                     OnFailure(cache, outcome.e))
                     /\ UNCHANGED << cache, cache_timestamp, fetched >>
             /\ UNCHANGED << agent, cache_duration >>

\* the agent plays no part here: one configuration of it is enough
TwitterInit ==
    /\ AgentInit
    /\ max_history = 1
    /\ system_template = CallerSystemTemplate
    /\ user_template = CallerUserTemplate
    /\ \E duration \in 0..MaxDuration : TwitterEnvInit(duration)

TwitterNext ==
    \/ Tick
    \/ \E outcome \in FetchOutcomes, elapsed \in 0..MaxElapsed :
          GetState(outcome, elapsed)

TwitterSpec == TwitterInit /\ [][TwitterNext]_vars

(***************************************************************************)
(* Properties.                                                             *)
(***************************************************************************)
Min(a, b) == IF a <= b THEN a ELSE b

\* the last n elements of a log, oldest first
Newest(log, n) == [i \in 1..n |-> log[Len(log) - n + i]]

\* C1: the length of action_history is at most max_history whenever an
\* operation has completed (and at every await in between).
C1_HistoryBounded == Len(action_history) <= max_history

\* an entry has been evicted and the history is full
C1_Witness ==
    /\ pc = "idle"
    /\ Len(executed) > max_history
    /\ Len(action_history) = max_history

\* C2: after K successful executions the history holds exactly the last
\* min(K, max_history) of them, oldest first.
C2_HistoryIsLastK ==
    action_history = Newest(executed, Min(Len(executed), max_history))

\* scenario D: max_history = 2 and three different successes X, Y, Z
C2_Witness ==
    /\ max_history = 2
    /\ Len(executed) = 3
    /\ Cardinality({executed[1], executed[2], executed[3]}) = 3
    /\ action_history = << executed[2], executed[3] >>

\* an operation that ran execute_action has completed, and the ActionResult
\* execute_action returned to it
ExecDone == ret.op \in {"execute_action", "run_loop"} /\ cur # NoCall
ExecResult == IF ret.op = "run_loop" THEN loop.result ELSE ret.result

HandlerCalls(step) ==
    {i \in 1..Len(events) : events[i].ev = "handler" /\ events[i].step = step}

\* C3: a run_loop in which every collaborator call succeeds and every
\* response is a well-formed directive for a registered action performs
\* max_steps executions and ends Completed, the history holding the last
\* min(max_steps, max_history) of them.  The hypothesis is read narrowly:
\* the templates are the caller's, whose fields are all supplied.
C3_LoopRunsAllSteps ==
    (/\ ret.op = "run_loop"
     /\ ~fault
     /\ system_template = CallerSystemTemplate
     /\ user_template = CallerUserTemplate)
    => /\ loop.state = "Completed"
       /\ Cardinality({i \in 1..Len(events) : events[i].ev = "handler"})
             = loop.max_steps
       /\ LET n == Min(loop.max_steps, max_history)
          IN  /\ Len(action_history) >= n
              /\ Len(executed) >= n
              /\ Newest(action_history, n) = Newest(executed, n)

\* C4: execute_action on a name that is not in the registry returns a
\* failure result whose message carries the name, raises nothing, calls no
\* handler and leaves the history as it was.
C4_UnregisteredFails ==
    (ExecDone /\ cur.name.v \notin DOMAIN action_registry)
    => /\ ret.raised = "none"
       /\ ~ExecResult.success
       /\ ExecResult.message.arg = cur.name.v
       /\ HandlerCalls(loop.step) = {}
       /\ action_history = hist0

\* a direct call on an unregistered name while other actions are
\* registered and the history is not empty
C4_Witness ==
    /\ ret.op = "execute_action"
    /\ cur.name = Str("nonexistent")
    /\ DOMAIN action_registry # {}
    /\ Len(action_history) > 0

\* C5: when the handler raises, execute_action returns a failure result
\* whose message is derived from the exception, raises nothing and leaves
\* the history as it was.
C5_HandlerFailureContained ==
    (ExecDone /\ resolved.call = "handler" /\ resolved.raised)
    => /\ ret.raised = "none"
       /\ ~ExecResult.success
       /\ ExecResult.message = [fmt |-> "Action failed: {}", arg |-> resolved.v]
       /\ action_history = hist0

\* a handler raised in a direct call made with a full history
C5_Witness ==
    /\ ret.op = "execute_action"
    /\ resolved.call = "handler"
    /\ resolved.raised
    /\ Len(action_history) = max_history

(***************************************************************************)
(* What each text of Responses means as JSON, written out by hand: the     *)
(* decoded value of a valid text, JSONDecodeError for the others.          *)
(***************************************************************************)
JSON(text) ==
    CASE text = Obj2("action", "wave", "reasoning", "greet") ->
            Decoded("dict", [action |-> Str("wave"), reasoning |-> Str("greet")], Str(""))
      [] text = Obj1("action", "wave") ->
            Decoded("dict", [action |-> Str("wave")], Str(""))
      [] text = Obj2("action", "post", "content", "hi") ->
            Decoded("dict", [action |-> Str("post"), content |-> Str("hi")], Str(""))
      [] text = Obj1("action", "nonexistent") ->
            Decoded("dict", [action |-> Str("nonexistent")], Str(""))
      [] text = Obj2("action", "wave", "action_name", "x") ->
            Decoded("dict", [action |-> Str("wave"), action_name |-> Str("x")], Str(""))
      [] text = Obj2("action", "wave", "action", "nonexistent") ->
            Decoded("dict", [action |-> Str("nonexistent")], Str(""))
      [] text = Obj1("reasoning", "greet") ->
            Decoded("dict", [reasoning |-> Str("greet")], Str(""))
      [] text = << P("{"), S("action"), P(":"), P("["), P("]"), P("}") >> ->
            Decoded("dict", [action |-> List], Str(""))
      [] text = << P("["), P("]") >> ->
            Decoded("list", EmptyDict, List)
      [] OTHER -> JSONDecodeError

\* the provider answered, with this text
Answered == resolved.call = "generate_response" /\ ~resolved.raised
Answer == JSON(resolved.text)

\* the keys of a mapping that are parameters of the action
Parameters(d) == [key \in (DOMAIN d) \ {"action", "reasoning"} |-> d[key]]

\* the step's execute_action returned a failure result: the name was not
\* registered or the handler raised
StepExecFailed ==
    /\ cur # NoCall
    /\ \/ cur.name.v \notin DOMAIN action_registry
       \/ resolved.call = "handler" /\ resolved.raised

\* C6: when the execution of a step returns a failure result, run_loop
\* ends in StoppedOnFailure at that step: no pause is taken, no later step
\* makes a call, and the history is what it was before the step.
C6_FailureStopsLoop ==
    (loop.state # "None" /\ StepExecFailed)
    => /\ pc = "idle"
       /\ ret.op = "run_loop"
       /\ loop.state = "StoppedOnFailure"
       /\ ~loop.result.success
       /\ \A i \in 1..Len(events) :
             /\ events[i].step <= loop.step
             /\ ~(events[i].ev = "sleep" /\ events[i].step = loop.step)
       /\ action_history = hist0

\* the handler of a registered action raised in a step of run_loop
C6_Witness ==
    /\ ret.op = "run_loop"
    /\ resolved.call = "handler"
    /\ resolved.raised
    /\ cur.name.v \in DOMAIN action_registry
    /\ loop.state = "StoppedOnFailure"

\* a failure was raised in the step before execute_action looked the
\* action up: by get_state, while the prompts were built, by the provider,
\* by the decoder, or while the directive was taken apart and dispatched
StepRaised ==
    \/ resolved.call = "get_state" /\ resolved.raised
    \/ /\ resolved.call = "get_state"
       /\ ~resolved.raised
       /\ BuildPrompts(system_template, user_template, action_registry,
                       action_history, max_history, "state") # "none"
    \/ resolved.call = "generate_response" /\ resolved.raised
    \/ Answered /\ Answer.err # "none"
    \/ /\ Answered
       /\ Answer.err = "none"
       /\ \/ Answer.kind # "dict"
          \/ "action" \notin DOMAIN Answer.dict
          \/ ~Hashable(Answer.dict["action"])
          \/ (DOMAIN Parameters(Answer.dict)) \cap BoundParams # {}

\* C7: a failure raised while the state is fetched, the next action is
\* resolved or the action is dispatched ends run_loop in StoppedOnError at
\* that step; run_loop raises nothing and the step leaves the history as it
\* was.
C7_ErrorsStopLoop ==
    (ret.op = "run_loop")
    => /\ ret.raised = "none"
       /\ StepRaised =>
             /\ loop.state = "StoppedOnError"
             /\ loop.error # "none"
             /\ \A i \in 1..Len(events) : events[i].step <= loop.step
             /\ HandlerCalls(loop.step) = {}
             /\ action_history = hist0

\* scenario C: the provider answers with a text that is not JSON
C7_Witness ==
    /\ ret.op = "run_loop"
    /\ Answered
    /\ resolved.text = << W("not"), W("json") >>
    /\ loop.state = "StoppedOnError"

\* the last registration under a name
LastReg(name) ==
    LET idx == {i \in 1..Len(regs) : regs[i].name = name}
    IN  regs[CHOOSE i \in idx : \A j \in idx : j <= i].action

\* C8: the exported descriptions have as keys exactly the distinct names
\* registered, each mapped to the description, required_params and example
\* of its most recent registration, without the handler.
C8_DescriptionsReflectLastRegistration ==
    LET d == get_action_descriptions(action_registry)
    IN  /\ DOMAIN d = {regs[i].name : i \in 1..Len(regs)}
        /\ \A name \in DOMAIN d :
              /\ DOMAIN d[name] = {"description", "required_params", "example"}
              /\ d[name].description = LastReg(name).description
              /\ d[name].required_params = LastReg(name).required_params
              /\ d[name].example = LastReg(name).example

\* a name registered twice with different actions
C8_Witness ==
    /\ Len(regs) >= 2
    /\ regs[1].name = regs[2].name
    /\ regs[1].action.description # regs[2].action.description

C10_AllKeysForwarded ==
    (/\ pc \in {"idle", "loop_handler", "loop_sleep"}
     /\ action_data.err = "none"
     /\ action_data.kind = "dict"
     /\ "action" \in DOMAIN action_data.dict
     /\ Hashable(action_data.dict["action"])
     /\ action_data.dict["action"].v \in DOMAIN action_registry)
    => /\ \E i \in HandlerCalls(loop.step) :
             /\ events[i].func = action_registry[action_data.dict["action"].v].func
             /\ events[i].kwargs = Parameters(action_data.dict)
       /\ (resolved.call = "handler" /\ ~resolved.raised)
             => /\ executed[Len(executed)].parameters = Parameters(action_data.dict)
                /\ executed[Len(executed)].reasoning =
                      IF "reasoning" \in DOMAIN action_data.dict
                      THEN action_data.dict["reasoning"] ELSE Str("")

\* C11: the history renders as the fixed sentence when it is empty and
\* otherwise as one item per entry of the last min(len, max_history)
\* entries, oldest first, each showing the entry's name, reasoning and
\* result; rendering succeeds for every history execute_action produces.
\* Stated of build_user_prompt on a template whose fields are all supplied.
C11_HistoryRenders ==
    (ret.op = "build_user_prompt" /\ user_template = CallerUserTemplate)
    => LET r == format_action_history(action_history, max_history)
           n == Min(Len(action_history), max_history)
           window == Newest(action_history, n)
       IN  /\ ret.raised = "none"
           /\ r.err = "none"
           /\ Len(action_history) = 0
                 => r.text = << "No previous actions taken." >>
           /\ Len(action_history) > 0
                 => /\ Len(r.text) = n
                    /\ \A i \in 1..n :
                          /\ r.text[i][1] = window[i].name
                          /\ r.text[i][3] = window[i].reasoning
                          /\ r.text[i][4] = window[i].result

\* the ActionResult of the execute_action that last returned
LastResult == IF loop.state # "None" THEN loop.result ELSE ret.result

\* C12: when the handler returns, execute_action returns a success result
\* whose data is the returned value, and one new entry (name, parameters,
\* reasoning, that value) is the newest of the history, at most the oldest
\* entry having been evicted.
C12_SuccessAppendsOne ==
    (resolved.call = "handler" /\ ~resolved.raised)
    => LET e == HistoryEntry(cur.name, cur.kwargs, cur.reasoning, resolved.v)
       IN  /\ LastResult.success
           /\ LastResult.data = resolved.v
           /\ Len(action_history) > 0
           /\ action_history[Len(action_history)] = e
           /\ \/ action_history = Append(hist0, e)
              \/ /\ Len(hist0) > 0
                 /\ action_history = Append(Tail(hist0), e)

\* a handler returned in a direct call made with a full history
C12_Witness ==
    /\ ret.op = "execute_action"
    /\ resolved.call = "handler"
    /\ ~resolved.raised
    /\ Len(hist0) = max_history
    /\ action_history # hist0

\* names looked up: those used in registrations and one never registered
LookupNames == Names \cup {"nonexistent"}

Registered(name) == \E i \in 1..Len(regs) : regs[i].name = name

\* C13: after any sequence of registrations, the lookup of a name gives
\* the Action of the most recent registration under it, or None when the
\* name was never registered; registering raises nothing.
C13_LookupReflectsLastRegistration ==
    /\ \A name \in LookupNames :
          get_action(action_registry, Str(name)) =
              IF Registered(name) THEN LastReg(name) ELSE None
    /\ ret.op = "register_action" => ret.raised = "none"

\* one name registered twice with different handlers, another never
C13_Witness ==
    /\ Len(regs) = 2
    /\ regs[1].name = regs[2].name
    /\ regs[1].action.func # regs[2].action.func
    /\ get_action(action_registry, Str(regs[2].name)).func = regs[2].action.func
    /\ \E name \in Names : get_action(action_registry, Str(name)) = None

\* the history gained an entry in this step
Appended ==
    /\ action_history' # action_history
    /\ Len(action_history') > 0

\* C14: every entry of the history names an action that was in the
\* registry when the entry's execution was performed: an entry is stored
\* only by a call whose lookup found its name, and it carries that name.
C14_EntriesNameRegisteredActions ==
    /\ [](\A i \in 1..Len(action_history) :
              /\ action_history[i].name.v \in DOMAIN action_registry
              /\ Registered(action_history[i].name.v))
    /\ [][Appended =>
              /\ action_history'[Len(action_history')].name = cur.name
              /\ cur.name.v \in DOMAIN action_registry
              /\ action_registry[cur.name.v].func = cur.func]_vars

\* an unregistered name was executed after entries had been stored
C14_Witness ==
    /\ ret.op = "execute_action"
    /\ cur.name.v \notin DOMAIN action_registry
    /\ Len(action_history) = max_history
    /\ Len(executed) > max_history

Terminal == {"StoppedOnFailure", "StoppedOnError", "Completed"}

\* the get_state calls made so far: one per iteration begun
Iterations == {i \in 1..Len(events) : events[i].ev = "get_state"}

\* C15: when every awaited call resolves, run_loop ends in one of the
\* three terminal states after at most max_steps iterations, and once it
\* has ended it awaits nothing more: the coroutine has returned and the
\* record of its calls no longer grows.
C15_LoopTerminates ==
    /\ [](loop.state # "None"
            => /\ loop.state \in Terminal \cup {"Running"}
               /\ loop.step < loop.max_steps
               /\ Cardinality(Iterations) = loop.step + 1
               /\ Cardinality(Iterations) <= loop.max_steps)
    /\ [](loop.state \in Terminal => pc = "idle" /\ ret.op = "run_loop")
    /\ [][(loop.state \in Terminal /\ loop'.state \in Terminal)
             => events' = events]_vars
    /\ (loop.state = "Running") ~> (loop.state \in Terminal)

\* the for statement was exhausted
C15_Witness ==
    /\ loop.state = "Completed"
    /\ loop.step + 1 = loop.max_steps
    /\ pc = "idle"

\* the suspension point that may follow another within one run_loop
Follows(a, b) ==
    \/ a.ev = "get_state" /\ b.ev = "generate_response" /\ b.step = a.step
    \/ a.ev = "generate_response" /\ b.ev = "handler" /\ b.step = a.step
    \/ a.ev = "handler" /\ b.ev = "sleep" /\ b.step = a.step
    \/ a.ev = "sleep" /\ b.ev = "get_state" /\ b.step = a.step + 1

CallsAt(ev, step) ==
    {i \in 1..Len(events) : events[i].ev = ev /\ events[i].step = step}

\* C16: in one run_loop the awaits occur in the order get_state,
\* generate_response, handler, pause within each step; a step begins only
\* when the pause of the step before has ended; the provider and the
\* handler are awaited at most once per step; one await is pending at a
\* time, that of the current step.
C16_StepsSequential ==
    loop.state # "None"
    => /\ Len(events) > 0
       /\ events[1].ev = "get_state" /\ events[1].step = 0
       /\ \A i \in 1..(Len(events) - 1) : Follows(events[i], events[i + 1])
       /\ \A step \in 0..loop.step :
             /\ Cardinality(CallsAt("get_state", step)) = 1
             /\ Cardinality(CallsAt("generate_response", step)) <= 1
             /\ Cardinality(CallsAt("handler", step)) <= 1
             /\ Cardinality(CallsAt("sleep", step)) <= 1
       /\ \A i \in 1..Len(events) : events[i].step <= loop.step
       /\ loop.state = "Running"
             => /\ events[Len(events)].step = loop.step
                /\ pc = CASE events[Len(events)].ev = "get_state" -> "loop_env"
                          [] events[Len(events)].ev = "generate_response" -> "loop_provider"
                          [] events[Len(events)].ev = "handler" -> "loop_handler"
                          [] OTHER -> "loop_sleep"

\* a second step has begun after a whole first step
C16_Witness ==
    /\ loop.state # "None"
    /\ Len(events) >= 5
    /\ events[4].ev = "sleep" /\ events[4].step = 0
    /\ events[5].ev = "get_state" /\ events[5].step = 1

\* the replacement fields of a template
Fields(template) ==
    {template[i].v : i \in {j \in 1..Len(template) : template[j].t = "field"}}

\* the keyword arguments build_system_prompt and build_user_prompt pass
SystemPlaceholders ==
    {"character_info", "world_description", "state_descriptions",
     "available_actions", "agent_guidelines"}
UserPlaceholders == {"state", "action_history"}

\* C17: an Agent with the default templates builds both prompts without
\* failure: every field of the default templates is a placeholder that
\* prompt construction supplies, so get_next_action reaches the provider.
C17_DefaultTemplatesBuild ==
    (/\ system_template = DEFAULT_SYSTEM_TEMPLATE
     /\ user_template = DEFAULT_USER_TEMPLATE
     /\ Len(action_history) = 0
     /\ ret.op \in {"build_system_prompt", "build_user_prompt", "get_next_action"})
    => /\ Fields(system_template) \subseteq SystemPlaceholders
       /\ Fields(user_template) \subseteq UserPlaceholders
       /\ ret.op \in {"build_system_prompt", "build_user_prompt"}
             => ret.raised = "none"
       /\ ret.op = "get_next_action"
             => (pc = "gna_provider" \/ resolved.call = "generate_response")

\* the provider's answer decodes to a value that carries no directive: it
\* is not a mapping, or it is a mapping without the key "action"
NoDirective ==
    /\ Answered
    /\ Answer.err = "none"
    /\ \/ Answer.kind # "dict"
       \/ "action" \notin DOMAIN Answer.dict

\* C18: in run_loop, an answer that decodes but is not a mapping, or is a
\* mapping without "action", ends the loop in StoppedOnError at that step;
\* no handler is called and the history is left as it was.
C18_MissingActionStopsOnError ==
    (loop.state # "None" /\ NoDirective)
    => /\ pc = "idle"
       /\ ret = Ret("run_loop", "none", NoResult, NoData)
       /\ loop.state = "StoppedOnError"
       /\ loop.error \in {"KeyError", "TypeError", "AttributeError"}
       /\ cur = NoCall
       /\ \A i \in 1..Len(events) : events[i].ev # "handler"
       /\ action_history = hist0

\* a mapping with only "reasoning" was answered while an action was
\* registered
C18_Witness ==
    /\ loop.state # "None"
    /\ Answered
    /\ resolved.text = Obj1("reasoning", "greet")
    /\ DOMAIN action_registry # {}

\* this step is the return of a handler that did not raise, inside
\* execute_action (called directly or by run_loop)
SuccessfulExecution ==
    /\ pc \in {"exec_handler", "loop_handler"}
    /\ resolved'.call = "handler"
    /\ ~resolved'.raised

\* C19: the history changes only in a step where execute_action stores a
\* successful execution: register_action, build_system_prompt,
\* build_user_prompt, get_next_action and a failing execute_action leave
\* it as it was; the registry changes only in register_action, never in
\* execute_action, get_next_action or run_loop.
C19_FrameEffects ==
    [][/\ action_history' # action_history => SuccessfulExecution
       /\ (/\ ret' # Pending
           /\ ret'.op \in {"register_action", "build_system_prompt",
                           "build_user_prompt", "get_next_action"})
             => action_history' = action_history
       /\ (ret'.op = "execute_action" /\ ~ret'.result.success)
             => action_history' = action_history
       /\ action_registry' # action_registry
             => (pc = "idle" /\ ret'.op = "register_action")
       /\ (pc # "idle" \/ pc' # "idle") => action_registry' = action_registry]_vars

\* build_user_prompt was called on an agent holding a history
C19_Witness ==
    /\ ret.op = "build_user_prompt"
    /\ Len(action_history) > 0
    /\ action_history = hist0
    /\ DOMAIN action_registry # {}

\* the calls that returned a success, in the order they returned, and the
\* entry each of them should have stored
Successes == SelectSeq(tasks.done, LAMBDA c : c.result.success)
Contributions ==
    [i \in 1..Len(Successes) |->
        HistoryEntry(Successes[i].frame.name, Successes[i].frame.kwargs,
                     Successes[i].frame.reasoning, Successes[i].result.data)]

\* C20: with several execute_action calls suspended in their handlers at
\* once, the history never exceeds max_history at any suspension point,
\* every call whose handler succeeded has contributed exactly one entry,
\* and the entries stand in the order the handlers completed: the history
\* is the last min(k, max_history) contributions in completion order.
C20_ConcurrentCalls ==
    /\ Len(action_history) <= max_history
    /\ action_history = Newest(Contributions, Min(Len(Contributions), max_history))
    /\ Len(executed) = Len(Successes)
    /\ \A i, j \in 1..Len(tasks.done) :
          tasks.done[i].id = tasks.done[j].id => i = j
    /\ \A t \in tasks.flight :
          \A i \in 1..Len(tasks.done) : tasks.done[i].id # t.id

\* two calls were in flight together; the one started second completed
\* first, and both entries are in the history, in completion order
C20_Witness ==
    /\ max_history = 2
    /\ Len(tasks.done) = 2
    /\ tasks.done[1].id = 2 /\ tasks.done[2].id = 1
    /\ tasks.done[1].result.success /\ tasks.done[2].result.success
    /\ tasks.done[1].frame # tasks.done[2].frame
    /\ tasks.flight # {}
    /\ action_history = Contributions

\* the mapping returned when the fetch fails and nothing is cached
IsErrorState(value) ==
    /\ DOMAIN value = {"error", "error_message"}
    /\ value.error = "Failed to fetch Twitter state"

\* C21: TwitterEnv.get_state raises nothing when the fetch fails: it
\* returns the state cached before the call if there is one, else a
\* mapping with error and error_message, and the cache and its timestamp
\* are what they were before the call.
C21_FetchFailureContained ==
    last.failed
    => /\ last.raised = "none"
       /\ last.calls >= 1
       /\ last.cache0 # EmptyDict => last.ret = last.cache0
       /\ last.cache0 = EmptyDict => IsErrorState(last.ret)
       /\ cache = last.cache0
       /\ cache_timestamp = last.timestamp0

\* a fetch failed while an expired state was cached
C21_Witness ==
    /\ last.failed
    /\ last.cache0 # EmptyDict
    /\ cache_duration > 0
    /\ last.at >= last.timestamp0 + cache_duration

\* the last call attempted a fetch: it did not return at line 95 and
\* made at least the first API call
AttemptedFetch == ~last.cached /\ last.calls >= 1

\* C22: t being the time a successful fetch was stamped with (the clock
\* read at line 89 by the call that fetched), a call made less than
\* cache_duration seconds after t returns the state of that fetch and
\* makes no API call; a call made at or after t + cache_duration attempts
\* a fetch; a failed fetch leaves the timestamp alone, so that the calls
\* after it attempt a fetch until one succeeds, which stamps the cache
\* with its own time.
C22_CacheWindow ==
    last.at # NoTimestamp
    => LET f == last.fetched0
       IN  /\ (f # NoFetch /\ last.at - f.t < cache_duration)
                => /\ last.cached
                   /\ last.calls = 0
                   /\ ~last.failed
                   /\ last.ret = f.state
                   /\ fetched = f
           /\ (f # NoFetch /\ last.at >= f.t + cache_duration) => AttemptedFetch
           /\ f = NoFetch => AttemptedFetch
           /\ last.failed
                => /\ cache_timestamp = last.timestamp0
                   /\ fetched = f
                   /\ Retrying
           /\ last.retry0 => AttemptedFetch
           /\ (AttemptedFetch /\ ~last.failed)
                => /\ cache_timestamp = last.at
                   /\ fetched = [t |-> last.at, state |-> last.ret]
                   /\ cache = last.ret
                   /\ ~Retrying

\* a fetch succeeded, its state expired, the next fetch failed, and the
\* call after that fetched again and succeeded
C22_Witness ==
    /\ last.retry0
    /\ AttemptedFetch
    /\ ~last.failed
    /\ last.fetched0 # NoFetch
    /\ cache_duration > 0
    /\ last.at >= last.fetched0.t + cache_duration
    /\ last.cache0 # cache

====
